---- MODULE Spec2Model ----
(***************************************************************************)
(* The news aggregation pipeline of newszoid-backend: the routes and the   *)
(* controller of src/routes/news.js (getNews, getLocalNews, fetchWithRetry,*)
(* normalizeArticle, buildAPIRequests), the node-cache instance they share *)
(* and the fallback store HARDCODED_DATA of src/routes/comments.js.        *)
(*                                                                         *)
(* The clock is a counter of time units.  A value that is undefined is     *)
(* the string Undefined; a missing date is 0 (falsy, like undefined).      *)
(***************************************************************************)
EXTENDS Integers, Sequences, FiniteSets, TLC

VARIABLES
    keys,        \* the providers whose API key is set and is not the placeholder
    aiEnabled,   \* geminiModel is non-null
    HARDCODED,   \* HARDCODED_DATA.news: category -> array of articles
    cache,       \* the node-cache instance: a set of [key, value, setAt]
    now,         \* the clock
    req,         \* the requests: one record per request slot
    db,          \* the MongoDB collections: users, bookmarks, comments
    http         \* the requests to the account endpoints, one record per slot

vars == <<keys, aiEnabled, HARDCODED, cache, now, req, db, http>>

---------------------------------------------------------------------------
(* Bounds of the model *)

MaxItems == 2       \* items in one provider payload, first request after startup
MaxSeqItems == 1    \* items in one provider payload, in a sequence of requests
MaxTicks == 1       \* advances of the clock
MaxRequests == 2    \* requests handled in one run
MaxHttp == 2        \* requests to the account endpoints, handled concurrently

(* Program constants *)

stdTTL == 300           \* CACHE_TTL_SECONDS default
defaultRetries == 2     \* fetchWithRetry(url, options, retries = 2)
enrichTop == 5          \* articles.slice(0, 5)

Undefined == "undefined"
Null == "null"

Reqs == 1..MaxRequests

Min(a, b) == IF a < b THEN a ELSE b
Max(a, b) == IF a > b THEN a ELSE b

---------------------------------------------------------------------------
(* Query strings.  The values a caller sends, and what the code's string   *)
(* functions make of them.                                                 *)

\* a category of 51 characters
LongCategory == "ccccccccccccccccccccccccccccccccccccccccccccccccccc"

QueryCategories == {Undefined, "Technology", "invalid", "constructor", LongCategory}
QueryLocations == {Undefined, "x"}
QueryNames(op) == IF op = "news" THEN QueryCategories ELSE QueryLocations
QueryPages == {Undefined, "0"}
QueryPageSizes == {Undefined, "1", "0"}

\* String.prototype.toLowerCase().trim() on the strings above
ToLowerTrim(s) ==
    CASE s = "Technology" -> "technology"
      [] s = "Mumbai" -> "mumbai"
      [] s = "Delhi" -> "delhi"
      [] OTHER -> s

\* parseInt(s, 10) on the strings above
ParseInt(s) ==
    CASE s = "0" -> 0
      [] s = "1" -> 1
      [] s = "2" -> 2
      [] s = "5" -> 5
      [] s = "10" -> 10

\* value || dflt
OrElse(v, dflt) == IF v = Undefined THEN dflt ELSE v

\* express-validator: .optional().isInt({min, max})
OptionalIntOk(s, lo, hi) ==
    IF s = Undefined THEN TRUE ELSE ParseInt(s) >= lo /\ ParseInt(s) <= hi

\* express-validator: .optional().isString().trim().isLength({min, max})
OptionalLengthOk(s, lo, hi) ==
    IF s = Undefined THEN TRUE ELSE Len(s) >= lo /\ Len(s) <= hi

\* The query of a request: name is req.query.category (GET /api/news) or
\* req.query.location (GET /api/news/local)
Queries(op) == [name : QueryNames(op), page : QueryPages, pageSize : QueryPageSizes]

\* the queries that give at most one parameter
OneParamQueries(op) ==
    {q \in Queries(op) :
        Cardinality({f \in {"name", "page", "pageSize"} : q[f] # Undefined}) <= 1}

\* the validation chain of GET /api/news
NewsQueryValid(q) ==
    /\ OptionalLengthOk(q.name, 1, 50)
    /\ OptionalIntOk(q.page, 1, 100)
    /\ OptionalIntOk(q.pageSize, 1, 50)

\* the validation chain of GET /api/news/local
LocalQueryValid(q) ==
    /\ OptionalLengthOk(q.name, 2, 100)
    /\ OptionalIntOk(q.page, 1, 50)
    /\ OptionalIntOk(q.pageSize, 1, 20)

\* validate: validationResult(req).isEmpty()
QueryValid(op, q) == IF op = "news" THEN NewsQueryValid(q) ELSE LocalQueryValid(q)

---------------------------------------------------------------------------
(* Articles *)

Article(id, url, publishedAt, source, aiSummary) ==
    [id |-> id, url |-> url, publishedAt |-> publishedAt, source |-> source,
     aiSummary |-> aiSummary]

\* A raw provider item.  null: the item is the JSON value null.  For gnews
\* url/publishedAt are raw.url/raw.publishedAt (id is not read); for the
\* guardian id/url/publishedAt are raw.id/raw.webUrl/raw.webPublicationDate.
Raw(id, url, publishedAt) ==
    [null |-> FALSE, id |-> id, url |-> url, publishedAt |-> publishedAt]
NullItem == [null |-> TRUE, id |-> Undefined, url |-> Undefined, publishedAt |-> 0]

GnewsItems == {Raw(Undefined, "https://a/1", 7), Raw(Undefined, Undefined, 0)}
GuardianItems == {Raw("world/1", "https://a/1", 5), Raw("world/1", "https://g/2", 9)}

\* normalizeArticle(source, raw) at time t, Math.random() returning rnd:
\* <<>> when it returns null, else the one article.
normalizeArticle(source, raw, t, rnd) ==
    IF raw.null THEN <<>>
    ELSE IF source = "gnews" THEN
        << Article(OrElse(raw.url, "gnews_" \o ToString(t) \o "_" \o ToString(rnd)),
                   OrElse(raw.url, "#"),
                   IF raw.publishedAt = 0 THEN t ELSE raw.publishedAt,
                   "GNews", Null) >>
    ELSE
        << Article(OrElse(raw.id, "guardian_" \o ToString(t) \o "_" \o ToString(rnd)),
                   OrElse(raw.url, "#"),
                   IF raw.publishedAt = 0 THEN t ELSE raw.publishedAt,
                   "The Guardian", Null) >>

---------------------------------------------------------------------------
(* The aggregation pipeline on arrays *)

\* array.map(a => normalizeArticle(source, a)).filter(Boolean); the i-th call
\* of Math.random() returns a value of its own
RECURSIVE MapNormalize(_, _, _, _)
MapNormalize(source, items, t, i) ==
    IF items = <<>> THEN <<>>
    ELSE normalizeArticle(source, Head(items), t, i)
         \o MapNormalize(source, Tail(items), t, i + 1)

\* articles.filter(article => !seen.has(article.url) && seen.add(article.url))
RECURSIVE DedupFrom(_, _)
DedupFrom(articles, seen) ==
    IF articles = <<>> THEN <<>>
    ELSE IF Head(articles).url \in seen THEN DedupFrom(Tail(articles), seen)
    ELSE <<Head(articles)>> \o DedupFrom(Tail(articles), seen \cup {Head(articles).url})

\* the deduplication, were the last article of a url to be kept
RECURSIVE DedupKeepLast(_)
DedupKeepLast(articles) ==
    IF articles = <<>> THEN <<>>
    ELSE IF \E i \in 2..Len(articles) : articles[i].url = Head(articles).url
         THEN DedupKeepLast(Tail(articles))
         ELSE <<Head(articles)>> \o DedupKeepLast(Tail(articles))

Dedup(articles) == DedupFrom(articles, {})

\* a sorted array with article a put after every element that is not older
RECURSIVE InsertByDate(_, _)
InsertByDate(a, sorted) ==
    IF sorted = <<>> THEN <<a>>
    ELSE IF Head(sorted).publishedAt >= a.publishedAt
         THEN <<Head(sorted)>> \o InsertByDate(a, Tail(sorted))
         ELSE <<a>> \o sorted

\* articles.sort((a, b) => new Date(b.publishedAt) - new Date(a.publishedAt)):
\* newest first, Array.prototype.sort being stable
RECURSIVE SortByDate(_)
SortByDate(articles) ==
    IF articles = <<>> THEN <<>>
    ELSE InsertByDate(articles[Len(articles)],
                      SortByDate(SubSeq(articles, 1, Len(articles) - 1)))

\* articles.slice(0, n)
Slice(articles, n) == SubSeq(articles, 1, Min(n, Len(articles)))

---------------------------------------------------------------------------
(* The fallback store *)

\* The entries of HARDCODED_DATA.news the model keeps, in the order the
\* object literal is evaluated.
FallbackLoadOrder ==
    << [category |-> "general", id |-> "fallback_gen_1", source |-> "Newszoid"],
       [category |-> "general", id |-> "fallback_gen_2", source |-> "Newszoid"],
       [category |-> "technology", id |-> "fallback_tech_1", source |-> "Tech Daily"],
       [category |-> "technology", id |-> "fallback_tech_2", source |-> "Tech Daily"] >>

FallbackCategories == {"general", "technology"}

\* The store as loaded when the millisecond clock ticks after the first
\* `tickAfter` evaluations of new Date().toISOString()
RECURSIVE LoadFrom(_, _, _)
LoadFrom(category, k, tickAfter) ==
    IF k > Len(FallbackLoadOrder) THEN <<>>
    ELSE (IF FallbackLoadOrder[k].category = category
          THEN << Article(FallbackLoadOrder[k].id, "#",
                          IF k <= tickAfter THEN 1 ELSE 2,
                          FallbackLoadOrder[k].source, Undefined) >>
          ELSE <<>>)
         \o LoadFrom(category, k + 1, tickAfter)

\* the clock ticks once while the store is loaded, after the first entry is
\* stamped, or not before the last one is
LoadTicks == {1, Len(FallbackLoadOrder)}

LoadedStore(tickAfter) == [c \in FallbackCategories |-> LoadFrom(c, 1, tickAfter)]

\* The names a plain object inherits from Object.prototype, among the
\* lower-case strings a category can be
ObjectPrototypeKeys == {"constructor"}

\* HARDCODED_DATA.news[category] || HARDCODED_DATA.news.general || [] is an
\* array of the store, unless news[category] is an inherited, truthy value
\* that is no array
FallbackIsArray(category) ==
    category \in FallbackCategories \/ category \notin ObjectPrototypeKeys

\* the store's key of the array the expression yields
FallbackKey(category) ==
    IF category \in FallbackCategories THEN category ELSE "general"

---------------------------------------------------------------------------
(* The cache *)

\* the key, were the page size left out of it
CacheKeyNoPageSize(op, name, page, pageSize) ==
    op \o ":" \o name \o ":p" \o ToString(page)

\* `news:${category}:p${page}:s${pageSize}` and `local:${location}:p...`
CacheKey(op, name, page, pageSize) ==
    op \o ":" \o name \o ":p" \o ToString(page) \o ":s" \o ToString(pageSize)

\* an entry of key k that has not expired at time t
CacheLive(c, k, t) == {e \in c : e.key = k /\ t <= e.setAt + stdTTL}

\* cache.get(k) is a hit
CacheHas(c, k, t) == CacheLive(c, k, t) # {}

\* the value cache.get(k) returns on a hit (a clone of the stored array)
CacheGet(c, k, t) == (CHOOSE e \in CacheLive(c, k, t) : TRUE).value

\* the cache after cache.get(k): an expired entry of k is deleted
CacheAfterGet(c, k, t) == {e \in c : e.key # k \/ t <= e.setAt + stdTTL}

\* cache.set, were it to keep the entry the key has
CacheSetKeepsFirst(c, k, v, t) ==
    IF \E e \in c : e.key = k THEN c
    ELSE c \cup {[key |-> k, value |-> v, setAt |-> t]}

\* the cache after cache.set(k, v): a clone of v, stamped with the time
CacheSet(c, k, v, t) ==
    {e \in c : e.key # k} \cup {[key |-> k, value |-> v, setAt |-> t]}

---------------------------------------------------------------------------
(* Requests *)

Ops == {"news", "local"}
ProviderSet == {"gnews", "guardian"}

\* the first three statements of getNews / getLocalNews
ParamName(op, q) ==
    ToLowerTrim(OrElse(q.name, IF op = "news" THEN "general" ELSE "Delhi"))
ParamPage(q) == Max(1, ParseInt(OrElse(q.page, "1")))
ParamPageSize(op, q) ==
    IF op = "news" THEN Min(50, Max(1, ParseInt(OrElse(q.pageSize, "10"))))
    ELSE Min(20, Max(1, ParseInt(OrElse(q.pageSize, "5"))))
ParamKey(op, q) == CacheKey(op, ParamName(op, q), ParamPage(q), ParamPageSize(op, q))

\* buildAPIRequests: the providers a request is built for
buildAPIRequests(k) == {p \in ProviderSet : p \in k}

\* the errors an attempt of axios can be rejected with
ErrorKinds == {"timeout", "network"}

\* a fetchWithRetry call: attempt is the loop's i while the call is pending,
\* errors the rejections of the attempts made, thrown the error the call is
\* rejected with
NoCall ==
    [state |-> "none", attempt |-> 0, outcome |-> "none", value |-> <<>>,
     errors |-> <<>>, thrown |-> Null]

\* a response; a field the response does not carry is FALSE (hasData: the
\* body has a data field)
Response(status, ok, fromCache, isFallback, error, hasData, data) ==
    [status |-> status, ok |-> ok, fromCache |-> fromCache, isFallback |-> isFallback,
     error |-> error, hasData |-> hasData, data |-> data]

NoResponse == Response(0, FALSE, FALSE, FALSE, FALSE, FALSE, <<>>)

IdleReq ==
    [pc |-> "idle", op |-> "none", name |-> "", page |-> 0, pageSize |-> 0,
     query |-> [name |-> Undefined, page |-> Undefined, pageSize |-> Undefined],
     startedAt |-> 0, doneAt |-> 0, via |-> "none",
     calls |-> [p \in ProviderSet |-> NoCall],
     failed |-> {}, usable |-> 0, aliased |-> "", enrich |-> {}, resp |-> NoResponse,
     after |-> 0]

\* the request record when the handler of op starts on query q
Started(op, q) ==
    [IdleReq EXCEPT !.op = op, !.query = q,
                    !.name = ParamName(op, q), !.startedAt = now,
                    !.page = ParamPage(q), !.pageSize = ParamPageSize(op, q)]

\* the request record when the handler has sent response resp on path via;
\* what the provider calls returned goes with the handler's frame, the
\* providers console.error was written for stay in the log (failed), usable
\* is the number of articles the calls returned
Responded(rec, via, resp) ==
    [rec EXCEPT !.pc = "done", !.via = via, !.resp = resp, !.doneAt = now,
                !.failed = {p \in ProviderSet : rec.calls[p].outcome = "failed"},
                !.usable = Len(rec.calls["gnews"].value) + Len(rec.calls["guardian"].value),
                !.calls = [p \in ProviderSet |-> NoCall]]

\* the requests are numbered in the order of their arrival; a client that
\* waits for the answer to request `after` sends its request when that answer
\* is there (after = 0: it waits for none)
CanStart(r) ==
    /\ req[r].pc = "idle"
    /\ IF r = 1 THEN TRUE ELSE req[r - 1].pc # "idle"
    /\ IF req[r].after = 0 THEN TRUE ELSE req[req[r].after].pc = "done"

\* the requests before any was sent, each sent on the answer to the one before
OneByOne == [r \in Reqs |-> [IdleReq EXCEPT !.after = r - 1]]

---------------------------------------------------------------------------
(* The account endpoints: the collections and the requests *)

Https == 1..MaxHttp

\* the collections, each in insertion order; a document's _id is its index
EmptyDb == [users |-> <<>>, bookmarks |-> <<>>, comments |-> <<>>, history |-> <<>>]

\* the database a server is started on when one user has registered before
OneUserDb == [EmptyDb EXCEPT !.users = << [name |-> "Test User", email |-> "a@x.com"] >>]

\* the database when two users have registered before
TwoUserDb == [OneUserDb EXCEPT !.users = Append(@, [name |-> "Test User", email |-> "b@x.com"])]

\* the token a request carries (cookie newszoid_token or Authorization
\* header): none, a string jwt.verify rejects, or a token signed for userId
NoToken == [kind |-> "none", userId |-> 0]
TokenUsers == {1, 2}
Tokens ==
    {NoToken, [kind |-> "garbage", userId |-> 0]}
    \cup {[kind |-> "jwt", userId |-> u] : u \in TokenUsers}

\* a request to an account endpoint: body holds the fields the handler
\* reads (articleId also stands for the :articleId parameter, isArray tells
\* that the body holds an array of one such item), user is req.user._id once
\* the middleware has set it, read tells that a collection was queried for
\* the request, ran that the route's handler was entered, created is the
\* _id of the document the request inserted
NoBody == [name |-> Undefined, email |-> Undefined, password |-> Undefined,
           articleId |-> Undefined, text |-> Undefined, title |-> Undefined,
           url |-> Undefined, isArray |-> FALSE]

IdleHttp ==
    [pc |-> "idle", endpoint |-> "none", token |-> NoToken, body |-> NoBody,
     email |-> Undefined, user |-> 0, read |-> FALSE, ran |-> FALSE,
     created |-> 0, status |-> 0, ok |-> FALSE, error |-> ""]

\* the requests are numbered in the order of their arrival
CanArrive(h) ==
    http[h].pc = "idle" /\ (IF h = 1 THEN TRUE ELSE http[h - 1].pc # "idle")

\* the request record once res.status(status).json(...) has been sent
Answer(rec, status, ok, error) ==
    [rec EXCEPT !.pc = "done", !.status = status, !.ok = ok, !.error = error]

---------------------------------------------------------------------------
Init ==
    /\ keys \in SUBSET ProviderSet
    /\ aiEnabled \in BOOLEAN
    /\ \E tickAfter \in LoadTicks : HARDCODED = LoadedStore(tickAfter)
    /\ cache = {}
    /\ now = 2
    /\ req = OneByOne
    /\ db = EmptyDb
    /\ http = [h \in Https |-> IdleHttp]

\* time passes: a second more than the lifetime of a cache entry
Tick ==
    /\ (now - 2) \div (stdTTL + 1) < MaxTicks
    /\ now' = now + stdTTL + 1
    /\ UNCHANGED <<db, http, keys, aiEnabled, HARDCODED, cache, req>>

\* validate, were it to let the request through to the handler's cache lookup
validateRejectsAfterLookup(r, op, q) ==
    /\ CanStart(r)
    /\ ~QueryValid(op, q)
    /\ req' = [req EXCEPT ![r] = Responded([IdleReq EXCEPT !.op = op, !.query = q,
                                                   !.startedAt = now],
                  "reject",
                  Response(400, FALSE, FALSE, FALSE, TRUE, FALSE, <<>>))]
    /\ cache' = CacheAfterGet(cache, ParamKey(op, q), now)
    /\ UNCHANGED <<db, http, keys, aiEnabled, HARDCODED, now>>

\* validate: the query breaks a rule of the route's chain
validateRejects(r, op, q) ==
    /\ CanStart(r)
    /\ ~QueryValid(op, q)
    /\ req' = [req EXCEPT ![r] = Responded([IdleReq EXCEPT !.op = op, !.query = q,
                                                   !.startedAt = now],
                  "reject",
                  Response(400, FALSE, FALSE, FALSE, TRUE, FALSE, <<>>))]
    /\ UNCHANGED <<db, http, keys, aiEnabled, HARDCODED, cache, now>>

\* the hit, were the enrichment started for the cached list
cacheHitEnriches(r, op, q) ==
    /\ CanStart(r)
    /\ QueryValid(op, q)
    /\ CacheHas(cache, ParamKey(op, q), now)
    /\ req' = [req EXCEPT ![r] =
                  [Responded(Started(op, q), "hit",
                       Response(200, TRUE, TRUE, FALSE, FALSE, TRUE,
                                CacheGet(cache, ParamKey(op, q), now)))
                   EXCEPT !.enrich =
                       LET n == Len(CacheGet(cache, ParamKey(op, q), now))
                       IN  IF aiEnabled /\ n > 0 THEN 1..Min(enrichTop, n) ELSE {}]]
    /\ UNCHANGED <<db, http, keys, aiEnabled, HARDCODED, cache, now>>

\* getNews / getLocalNews: cache.get(cacheKey) is a hit
cacheHit(r, op, q) ==
    /\ CanStart(r)
    /\ QueryValid(op, q)
    /\ CacheHas(cache, ParamKey(op, q), now)
    /\ req' = [req EXCEPT ![r] = Responded(Started(op, q), "hit",
                  Response(200, TRUE, TRUE, FALSE, FALSE, TRUE,
                           CacheGet(cache, ParamKey(op, q), now)))]
    /\ UNCHANGED <<db, http, keys, aiEnabled, HARDCODED, cache, now>>

\* the response body's data field when it is given the fallback expression:
\* JSON.stringify leaves out a field whose value is a function
FallbackResponse(category, fromCacheField, error) ==
    IF FallbackIsArray(category)
    THEN Response(200, TRUE, fromCacheField, TRUE, error, TRUE,
                  HARDCODED[FallbackKey(category)])
    ELSE Response(200, TRUE, fromCacheField, TRUE, error, FALSE, <<>>)

\* the record getLocalNews answers with when no request was built
LocalFallback(location, t) ==
    << Article("local_fallback_1", "#", t, "Newszoid Local", Undefined) >>

\* getNews: a cache miss and buildAPIRequests returns no request
getNewsNoKeys(r, q) ==
    /\ CanStart(r)
    /\ NewsQueryValid(q)
    /\ ~CacheHas(cache, ParamKey("news", q), now)
    /\ buildAPIRequests(keys) = {}
    /\ req' = [req EXCEPT ![r] = Responded(Started("news", q), "nokeys",
                  FallbackResponse(ParamName("news", q), FALSE, FALSE))]
    /\ cache' = CacheAfterGet(cache, ParamKey("news", q), now)
    /\ UNCHANGED <<db, http, keys, aiEnabled, HARDCODED, now>>

\* getLocalNews: a cache miss and buildAPIRequests returns no request
getLocalNewsNoKeys(r, q) ==
    /\ CanStart(r)
    /\ LocalQueryValid(q)
    /\ ~CacheHas(cache, ParamKey("local", q), now)
    /\ buildAPIRequests(keys) = {}
    /\ req' = [req EXCEPT ![r] = Responded(Started("local", q), "nokeys",
                  Response(200, TRUE, FALSE, TRUE, FALSE, TRUE,
                           LocalFallback(ParamName("local", q), now)))]
    /\ cache' = CacheAfterGet(cache, ParamKey("local", q), now)
    /\ UNCHANGED <<db, http, keys, aiEnabled, HARDCODED, now>>

\* getNews / getLocalNews: a cache miss; one fetchWithRetry call is started
\* for every request built, and the handler awaits Promise.allSettled
fanOut(r, op, q) ==
    /\ CanStart(r)
    /\ QueryValid(op, q)
    /\ ~CacheHas(cache, ParamKey(op, q), now)
    /\ buildAPIRequests(keys) # {}
    /\ req' = [req EXCEPT ![r] =
                  [Started(op, q) EXCEPT !.pc = "fetch",
                      !.calls = [p \in ProviderSet |->
                                    IF p \in buildAPIRequests(keys)
                                    THEN [NoCall EXCEPT !.state = "pending"]
                                    ELSE NoCall]]]
    /\ cache' = CacheAfterGet(cache, ParamKey(op, q), now)
    /\ UNCHANGED <<db, http, keys, aiEnabled, HARDCODED, now>>

\* getNews: an exception is raised in the try block before the cache is
\* read; the catch block answers
getNewsThrows(r, q) ==
    /\ CanStart(r)
    /\ NewsQueryValid(q)
    /\ req' = [req EXCEPT ![r] = Responded(Started("news", q), "catch",
                  FallbackResponse(ToLowerTrim(OrElse(q.name, "general")), FALSE, TRUE))]
    /\ UNCHANGED <<db, http, keys, aiEnabled, HARDCODED, cache, now>>

\* getLocalNews: an exception is raised in the try block before the cache
\* is read; the catch block answers
getLocalNewsThrows(r, q) ==
    /\ CanStart(r)
    /\ LocalQueryValid(q)
    /\ req' = [req EXCEPT ![r] = Responded(Started("local", q), "catch",
                  Response(500, FALSE, FALSE, FALSE, TRUE, TRUE, <<>>))]
    /\ UNCHANGED <<db, http, keys, aiEnabled, HARDCODED, cache, now>>

---------------------------------------------------------------------------
(* The provider calls *)

\* the payloads a provider can answer with: the array field is missing
\* (malformed), or it holds up to n items
Payloads(p, n) ==
    LET items == IF p = "gnews" THEN GnewsItems ELSE GuardianItems
    IN  {[malformed |-> TRUE, items |-> <<>>]}
        \cup {[malformed |-> FALSE, items |-> s] :
                  s \in UNION {[1..k -> items] : k \in 0..n}}

\* the payloads of up to n items that hold a null among the items
NullPayloads(p, n) ==
    LET items == (IF p = "gnews" THEN GnewsItems ELSE GuardianItems) \cup {NullItem}
    IN  {[malformed |-> FALSE, items |-> s] :
            s \in {x \in UNION {[1..k -> items] : k \in 1..n} :
                      \E i \in 1..Len(x) : x[i] = NullItem}}

\* the callback, were an item that cannot be normalized to void the payload
MapPayloadAllOrNothing(p, data, t) ==
    IF data.malformed \/ \E i \in 1..Len(data.items) : data.items[i].null THEN <<>>
    ELSE MapNormalize(p, data.items, t, 1)

\* the callback given to requests.map, after fetchWithRetry returned data
MapPayload(p, data, t) ==
    IF data.malformed THEN <<>> ELSE MapNormalize(p, data.items, t, 1)

\* fetchWithRetry, were the loop to give up one attempt early
fetchFailsOneShort(r, p, error) ==
    /\ req[r].pc = "fetch"
    /\ req[r].calls[p].state = "pending"
    /\ req' = [req EXCEPT ![r].calls[p] =
                  IF @.attempt >= defaultRetries - 1
                  THEN [@ EXCEPT !.state = "settled", !.attempt = 0, !.outcome = "failed",
                                 !.errors = Append(@, error), !.thrown = error]
                  ELSE [@ EXCEPT !.attempt = @ + 1, !.errors = Append(@, error)]]
    /\ UNCHANGED <<db, http, keys, aiEnabled, HARDCODED, cache, now>>

\* fetchWithRetry: the attempt fails with error (network error, timeout,
\* status); at i === retries the error is thrown and the callback returns []
fetchFails(r, p, error) ==
    /\ req[r].pc = "fetch"
    /\ req[r].calls[p].state = "pending"
    /\ req' = [req EXCEPT ![r].calls[p] =
                  IF @.attempt = defaultRetries
                  THEN [@ EXCEPT !.state = "settled", !.attempt = 0, !.outcome = "failed",
                                 !.errors = Append(@, error), !.thrown = error]
                  ELSE [@ EXCEPT !.attempt = @ + 1, !.errors = Append(@, error)]]
    /\ UNCHANGED <<db, http, keys, aiEnabled, HARDCODED, cache, now>>

\* fetchWithRetry: the attempt succeeds and returns response.data
fetchReturns(r, p, data) ==
    /\ req[r].pc = "fetch"
    /\ req[r].calls[p].state = "pending"
    /\ req' = [req EXCEPT ![r].calls[p] =
                  [@ EXCEPT !.state = "settled", !.attempt = 0, !.errors = <<>>,
                            !.outcome = IF data.malformed THEN "malformed" ELSE "ok",
                            !.value = MapPayload(p, data, now)]]
    /\ UNCHANGED <<db, http, keys, aiEnabled, HARDCODED, cache, now>>

\* the await, were it to resume as soon as one call is rejected (Promise.all)
SettledOrRejected(r) ==
    /\ req[r].pc = "fetch"
    /\ \/ \A p \in ProviderSet : req[r].calls[p].state # "pending"
       \/ \E p \in ProviderSet : req[r].calls[p].outcome = "failed"

\* Promise.allSettled has resolved
AllSettled(r) ==
    /\ req[r].pc = "fetch"
    /\ \A p \in ProviderSet : req[r].calls[p].state # "pending"

\* the merge, were a failed call to void the other calls' articles
MergedFailFast(r) ==
    IF \E p \in ProviderSet : req[r].calls[p].outcome = "failed" THEN <<>>
    ELSE Dedup(req[r].calls["gnews"].value \o req[r].calls["guardian"].value)

\* responses.filter(fulfilled).flatMap(r => r.value).filter(Boolean), then
\* the deduplication by url
Merged(r) == Dedup(req[r].calls["gnews"].value \o req[r].calls["guardian"].value)

\* the indexes of the articles the enrichment is started for
EnrichTargets(articles) ==
    IF aiEnabled /\ Len(articles) > 0 THEN 1..Min(enrichTop, Len(articles)) ELSE {}

\* getNews after the await, were it to await the enrichment before it
\* caches and answers
getNewsJoinLiveAwaits(r) ==
    /\ AllSettled(r) /\ req[r].op = "news"
    /\ Len(Merged(r)) # 0
    /\ LET articles == Slice(SortByDate(Merged(r)), req[r].pageSize)
       IN  IF EnrichTargets(articles) = {}
           THEN /\ cache' = CacheSet(cache, CacheKey("news", req[r].name, req[r].page,
                                                     req[r].pageSize), articles, now)
                /\ req' = [req EXCEPT ![r] =
                              Responded(@, "live",
                                  Response(200, TRUE, FALSE, FALSE, FALSE, TRUE, articles))]
           ELSE /\ cache' = cache
                /\ req' = [req EXCEPT ![r].pc = "enrich",
                                       ![r].enrich = EnrichTargets(articles)]
    /\ UNCHANGED <<db, http, keys, aiEnabled, HARDCODED, now>>

\* getNews after the await: the providers gave articles
getNewsJoinLive(r) ==
    /\ AllSettled(r) /\ req[r].op = "news"
    /\ Len(Merged(r)) # 0
    /\ LET articles == Slice(SortByDate(Merged(r)), req[r].pageSize)
       IN  /\ cache' = CacheSet(cache, CacheKey("news", req[r].name, req[r].page,
                                                req[r].pageSize), articles, now)
           /\ req' = [req EXCEPT ![r] =
                         [Responded(@, "live",
                              Response(200, TRUE, FALSE, FALSE, FALSE, TRUE, articles))
                          EXCEPT !.enrich = EnrichTargets(articles)]]
    /\ UNCHANGED <<db, http, keys, aiEnabled, HARDCODED, now>>

\* getNews after the await, were the fallback list sent without being cached
getNewsJoinFallbackUncached(r) ==
    /\ AllSettled(r) /\ req[r].op = "news"
    /\ Len(Merged(r)) = 0
    /\ FallbackIsArray(req[r].name)
    /\ LET k == FallbackKey(req[r].name)
           sorted == SortByDate(HARDCODED[k])
           articles == Slice(sorted, req[r].pageSize)
       IN  /\ HARDCODED' = [HARDCODED EXCEPT ![k] = sorted]
           /\ req' = [req EXCEPT ![r] =
                         [Responded(@, "fallback",
                              Response(200, TRUE, FALSE, FALSE, FALSE, TRUE, articles))
                          EXCEPT !.aliased = k,
                                 !.enrich = EnrichTargets(articles)]]
    /\ UNCHANGED <<db, http, keys, aiEnabled, cache, now>>

\* getNews after the await: no article, the fallback array is taken, sorted
\* in place, sliced, cached and sent
getNewsJoinFallback(r) ==
    /\ AllSettled(r) /\ req[r].op = "news"
    /\ Len(Merged(r)) = 0
    /\ FallbackIsArray(req[r].name)
    /\ LET k == FallbackKey(req[r].name)
           sorted == SortByDate(HARDCODED[k])
           articles == Slice(sorted, req[r].pageSize)
       IN  /\ HARDCODED' = [HARDCODED EXCEPT ![k] = sorted]
           /\ cache' = CacheSet(cache, CacheKey("news", req[r].name, req[r].page,
                                                req[r].pageSize), articles, now)
           /\ req' = [req EXCEPT ![r] =
                         [Responded(@, "fallback",
                              Response(200, TRUE, FALSE, FALSE, FALSE, TRUE, articles))
                          EXCEPT !.aliased = k,
                                 !.enrich = EnrichTargets(articles)]]
    /\ UNCHANGED <<db, http, keys, aiEnabled, now>>

\* getNews after the await: no article, and the fallback expression yields a
\* function: articles.sort is not a function, the catch block answers
getNewsJoinThrows(r) ==
    /\ AllSettled(r) /\ req[r].op = "news"
    /\ Len(Merged(r)) = 0
    /\ ~FallbackIsArray(req[r].name)
    /\ req' = [req EXCEPT ![r] =
                  Responded(@, "joincatch", FallbackResponse(req[r].name, FALSE, TRUE))]
    /\ UNCHANGED <<db, http, keys, aiEnabled, HARDCODED, cache, now>>

\* getLocalNews after the await, were a failed call to reach the catch block
getLocalNewsJoinFailFast(r) ==
    /\ AllSettled(r) /\ req[r].op = "local"
    /\ LET articles == Slice(SortByDate(Merged(r)), req[r].pageSize)
           failed == \E p \in ProviderSet : req[r].calls[p].outcome = "failed"
       IN  /\ cache' = IF failed THEN cache
                       ELSE CacheSet(cache, CacheKey("local", req[r].name, req[r].page,
                                                     req[r].pageSize), articles, now)
           /\ req' = [req EXCEPT ![r] =
                         Responded(@, "live",
                              IF failed
                              THEN Response(500, FALSE, FALSE, FALSE, TRUE, TRUE, <<>>)
                              ELSE Response(200, TRUE, FALSE, FALSE, FALSE, TRUE, articles))]
    /\ UNCHANGED <<db, http, keys, aiEnabled, HARDCODED, now>>

\* getLocalNews after the await: merge, sort, slice, cache and send
getLocalNewsJoin(r) ==
    /\ AllSettled(r) /\ req[r].op = "local"
    /\ LET articles == Slice(SortByDate(Merged(r)), req[r].pageSize)
       IN  /\ cache' = CacheSet(cache, CacheKey("local", req[r].name, req[r].page,
                                                req[r].pageSize), articles, now)
           /\ req' = [req EXCEPT ![r] =
                         Responded(@, "live",
                              Response(200, TRUE, FALSE, FALSE, FALSE, TRUE, articles))]
    /\ UNCHANGED <<db, http, keys, aiEnabled, HARDCODED, now>>

---------------------------------------------------------------------------
(* The AI enrichment *)

\* what enhanceWithGemini resolves to: a text, or null
Summaries == {"summary", Null}

\* array with the aiSummary of the article of this id set
SetSummary(articles, id, text) ==
    [i \in 1..Len(articles) |->
        IF articles[i].id = id THEN [articles[i] EXCEPT !.aiSummary = text]
        ELSE articles[i]]

\* article.aiSummary = aiText || null, for the i-th article of the request's
\* array.  The article is an object of the fallback store when the fallback
\* was taken; else it is an object only the request's array holds (the
\* response is serialized, the cache holds a clone), and the assignment
\* changes nothing another step reads.
enrichSettles(r, i, aiText) ==
    /\ i \in req[r].enrich
    /\ req' = [req EXCEPT ![r].enrich = @ \ {i}]
    /\ HARDCODED' =
          IF req[r].aliased = "" THEN HARDCODED
          ELSE [HARDCODED EXCEPT ![req[r].aliased] =
                   SetSummary(@, req[r].resp.data[i].id, aiText)]
    /\ UNCHANGED <<db, http, keys, aiEnabled, cache, now>>

---------------------------------------------------------------------------
\* the steps of the requests R on a cache miss, the queries of op drawn from Q[op],
\* provider p answering with a payload of P[p] or failing with an error of E
Step(R, P, Q, E) ==
    \/ Tick
    \/ \E r \in R, op \in Ops : \E q \in Q[op] : validateRejects(r, op, q)
    \/ \E r \in R : \E q \in Q["news"] : getNewsNoKeys(r, q)
    \/ \E r \in R : \E q \in Q["local"] : getLocalNewsNoKeys(r, q)
    \/ \E r \in R, op \in Ops : \E q \in Q[op] : fanOut(r, op, q)
    \/ \E r \in R : \E q \in Q["news"] : getNewsThrows(r, q)
    \/ \E r \in R : \E q \in Q["local"] : getLocalNewsThrows(r, q)
    \/ \E r \in R, p \in ProviderSet, error \in E : fetchFails(r, p, error)
    \/ \E r \in R, p \in ProviderSet : \E data \in P[p] : fetchReturns(r, p, data)
    \/ \E r \in R : getNewsJoinLive(r)
    \/ \E r \in R : getNewsJoinFallback(r)
    \/ \E r \in R : getNewsJoinThrows(r)
    \/ \E r \in R : getLocalNewsJoin(r)

\* a sequence of requests that give at most one parameter each, every
\* failed attempt being a timeout, GEMINI_API_KEY not being set
Next ==
    \/ Step(Reqs, [p \in ProviderSet |-> Payloads(p, MaxSeqItems)],
            [op \in Ops |-> OneParamQueries(op)], {"timeout"})
    \/ \E r \in Reqs, op \in Ops : \E q \in OneParamQueries(op) : cacheHit(r, op, q)

InitNoAI == Init /\ ~aiEnabled

Spec == InitNoAI /\ [][Next]_vars

\* the first request after startup (the cache is empty when it is looked
\* up), with or without GEMINI_API_KEY
NextFirst ==
    \/ Step({1}, [p \in ProviderSet |-> Payloads(p, MaxItems)],
            [op \in Ops |-> Queries(op)], ErrorKinds)
    \/ \E i \in 1..enrichTop, aiText \in Summaries : enrichSettles(1, i, aiText)

SpecFirst == Init /\ [][NextFirst]_vars

\* the payloads of a provider, with and without a null among the items
AnyPayloads == [p \in ProviderSet |-> Payloads(p, MaxItems) \cup NullPayloads(p, MaxItems)]

\* GNEWS_API_KEY and GUARDIAN_API_KEY are set, GEMINI_API_KEY is not
InitPayload == Init /\ keys = ProviderSet /\ ~aiEnabled

\* the first request after startup, without parameters and handled within
\* one value of the clock, the payloads holding any items
NextPayload ==
    \/ \E op \in Ops : fanOut(1, op, [name |-> Undefined, page |-> Undefined,
                                       pageSize |-> Undefined])
    \/ \E p \in ProviderSet, error \in ErrorKinds : fetchFails(1, p, error)
    \/ \E p \in ProviderSet : \E data \in AnyPayloads[p] : fetchReturns(1, p, data)
    \/ getNewsJoinLive(1)
    \/ getNewsJoinFallback(1)
    \/ getLocalNewsJoin(1)

SpecPayload == InitPayload /\ [][NextPayload]_vars

\* only GNEWS_API_KEY is set, and no client waits for the answer to another
\* request before it sends its own
InitRace ==
    /\ keys = {"gnews"}
    /\ aiEnabled = FALSE
    /\ \E tickAfter \in LoadTicks : HARDCODED = LoadedStore(tickAfter)
    /\ cache = {}
    /\ now = 2
    /\ req = [r \in Reqs |-> IdleReq]
    /\ db = EmptyDb
    /\ http = [h \in Https |-> IdleHttp]

\* GET /api/news without parameters, sent by several clients within the
\* lifetime of a cache entry
NextRace ==
    \/ \E r \in Reqs : cacheHit(r, "news", [name |-> Undefined, page |-> Undefined,
                                            pageSize |-> Undefined])
    \/ \E r \in Reqs : fanOut(r, "news", [name |-> Undefined, page |-> Undefined,
                                          pageSize |-> Undefined])
    \/ \E r \in Reqs, p \in ProviderSet : fetchFails(r, p, "timeout")
    \/ \E r \in Reqs, p \in ProviderSet :
          \E data \in Payloads(p, MaxSeqItems) : fetchReturns(r, p, data)
    \/ \E r \in Reqs : getNewsJoinLive(r)
    \/ \E r \in Reqs : getNewsJoinFallback(r)

SpecRace == InitRace /\ [][NextRace]_vars

\* queries that spell one cache key in two ways (the default left out or
\* written out), and queries whose keys differ in the operation only, in the
\* name only or in the page only
NoQuery == [name |-> Undefined, page |-> Undefined, pageSize |-> Undefined]
CacheQueries(op) ==
    IF op = "news"
    THEN {NoQuery, [NoQuery EXCEPT !.name = "general"], [NoQuery EXCEPT !.name = "Delhi"],
          [NoQuery EXCEPT !.page = "2"]}
    ELSE {NoQuery, [NoQuery EXCEPT !.pageSize = "10"]}

\* only GNEWS_API_KEY is set
InitCache == Init /\ keys = {"gnews"}

\* a sequence of requests with valid queries, with or without
\* GEMINI_API_KEY, enhanceWithGemini resolving to a text
NextCache ==
    \/ Tick
    \/ \E r \in Reqs, op \in Ops : \E q \in CacheQueries(op) : cacheHit(r, op, q)
    \/ \E r \in Reqs, op \in Ops : \E q \in CacheQueries(op) : fanOut(r, op, q)
    \/ \E r \in Reqs, p \in ProviderSet : fetchFails(r, p, "timeout")
    \/ \E r \in Reqs, p \in ProviderSet :
          \E data \in Payloads(p, MaxSeqItems) : fetchReturns(r, p, data)
    \/ \E r \in Reqs : getNewsJoinLive(r)
    \/ \E r \in Reqs : getNewsJoinFallback(r)
    \/ \E r \in Reqs : getLocalNewsJoin(r)
    \/ \E r \in Reqs, i \in 1..enrichTop : enrichSettles(r, i, "summary")

SpecCache == InitCache /\ [][NextCache]_vars

---------------------------------------------------------------------------
(* POST /api/auth/register *)

RegNames == {"Test User"}
RegEmails == {"a@x.com", "A@X.com", "bad"}
RegPasswords == {"Test123456", "password", "12345"}

RegBodies ==
    {[NoBody EXCEPT !.name = n, !.email = e, !.password = pw] :
        n \in RegNames, e \in RegEmails, pw \in RegPasswords}

\* express-validator isEmail() on the strings above
IsEmail(s) == s \in {"a@x.com", "A@X.com"}

\* express-validator normalizeEmail() on the strings above, and the schema's
\* lowercase: true, trim: true
NormalizeEmail(s) == IF s = "A@X.com" THEN "a@x.com" ELSE s

\* validationResult(req).isEmpty() for the chain of the register route
RegisterBodyValid(body) ==
    /\ body.name # ""
    /\ IsEmail(body.email)
    /\ Len(body.password) >= 6

\* User.findOne({ email }) finds a document
UserExists(email) == \E i \in 1..Len(db.users) : db.users[i].email = email

\* the handler up to await User.findOne: the validation errors are answered
\* with 400
registerStart(h, body) ==
    /\ CanArrive(h)
    /\ http' = [http EXCEPT ![h] =
                   LET rec == [IdleHttp EXCEPT !.endpoint = "register", !.body = body,
                                               !.ran = TRUE]
                   IN  IF RegisterBodyValid(body)
                       THEN [rec EXCEPT !.pc = "find", !.email = NormalizeEmail(body.email)]
                       ELSE Answer(rec, 400, FALSE, "validation")]
    /\ UNCHANGED <<keys, aiEnabled, HARDCODED, cache, now, req, db>>

\* User.findOne has resolved: an existing user is answered with 400, else
\* the handler awaits bcrypt.hash and user.save
registerFind(h) ==
    /\ http[h].pc = "find" /\ http[h].endpoint = "register"
    /\ http' = [http EXCEPT ![h] =
                   IF UserExists(@.email)
                   THEN Answer([@ EXCEPT !.read = TRUE], 400, FALSE,
                               "Email already registered")
                   ELSE [@ EXCEPT !.pc = "save", !.read = TRUE]]
    /\ UNCHANGED <<keys, aiEnabled, HARDCODED, cache, now, req, db>>

\* user.save(), were the schema to declare no unique index on email
registerSaveNoIndex(h) ==
    /\ http[h].pc = "save" /\ http[h].endpoint = "register"
    /\ db' = [db EXCEPT !.users =
                 Append(@, [name |-> http[h].body.name, email |-> http[h].email])]
    /\ http' = [http EXCEPT ![h] =
                   Answer([@ EXCEPT !.created = Len(db.users) + 1], 200, TRUE, "")]
    /\ UNCHANGED <<keys, aiEnabled, HARDCODED, cache, now, req>>

\* user.save() has settled: the unique index on email rejects a second
\* document of the email (E11000) and the catch block answers 500; else the
\* user is stored and the response carries the cookie
registerSave(h) ==
    /\ http[h].pc = "save" /\ http[h].endpoint = "register"
    /\ IF UserExists(http[h].email)
       THEN /\ http' = [http EXCEPT ![h] = Answer(@, 500, FALSE, "Registration failed")]
            /\ db' = db
       ELSE /\ db' = [db EXCEPT !.users =
                         Append(@, [name |-> http[h].body.name, email |-> http[h].email])]
            /\ http' = [http EXCEPT ![h] =
                           Answer([@ EXCEPT !.created = Len(db.users) + 1],
                                  200, TRUE, "")]
    /\ UNCHANGED <<keys, aiEnabled, HARDCODED, cache, now, req>>

---------------------------------------------------------------------------
(* The routes behind the auth middleware *)

Protected == {"me", "comments", "bookmarks", "history", "migrate"}

ArticleIds == {"art1"}
CommentTexts == {Undefined, "hello", "<b></b>"}

\* the bodies sent to a protected endpoint
Bodies(endpoint) ==
    CASE endpoint = "me" -> {NoBody}
      [] endpoint = "comments" ->
            {[NoBody EXCEPT !.articleId = a, !.text = t] :
                a \in ArticleIds, t \in CommentTexts}
      [] endpoint = "history" ->
            {[NoBody EXCEPT !.articleId = a] : a \in ArticleIds \cup {Undefined}}
      [] endpoint = "bookmarks" ->
            {[NoBody EXCEPT !.articleId = a, !.title = "Test Article",
                            !.url = "https://example.com/article"] :
                a \in ArticleIds \cup {Undefined}}
      [] endpoint = "migrate" ->
            {NoBody} \cup
            {[NoBody EXCEPT !.isArray = TRUE, !.articleId = a, !.title = "Test Article",
                            !.url = "https://example.com/article"] :
                a \in ArticleIds}

\* sanitizeHtml with no allowed tags, then trim, on the texts above
sanitizeComment(text) == IF text = "<b></b>" THEN "" ELSE text

commentsPerHour == 10
hour == 3600

\* Comment.countDocuments({ userId, createdAt: { $gte: oneHourAgo } })
recentComments(user) ==
    Cardinality({i \in 1..Len(db.comments) :
                    /\ db.comments[i].userId = user
                    /\ db.comments[i].createdAt >= now - hour})

\* Bookmark.findOne({ userId, articleId }) finds a document
BookmarkExists(user, articleId) ==
    \E i \in 1..Len(db.bookmarks) :
        db.bookmarks[i].userId = user /\ db.bookmarks[i].articleId = articleId

\* ReadingHistory.findOne({ userId, articleId, ... }) can find a document
HistoryExists(user, articleId) ==
    \E i \in 1..Len(db.history) :
        db.history[i].userId = user /\ db.history[i].articleId = articleId

\* the handler of the route, from its entry to its first await
Handler(rec) ==
    CASE rec.endpoint = "me" -> Answer(rec, 200, TRUE, "")
      [] rec.endpoint = "comments" ->
            IF rec.body.text = Undefined
            THEN Answer(rec, 400, FALSE, "Comment text is required")
            ELSE IF Len(sanitizeComment(rec.body.text)) = 0
            THEN Answer(rec, 400, FALSE, "Comment cannot be empty")
            ELSE [rec EXCEPT !.pc = "count"]
      [] rec.endpoint = "bookmarks" ->
            IF rec.body.articleId = Undefined
            THEN Answer(rec, 400, FALSE, "Missing required fields")
            ELSE [rec EXCEPT !.pc = "find"]
      [] rec.endpoint = "history" ->
            IF rec.body.articleId = Undefined
            THEN Answer(rec, 400, FALSE, "Missing articleId")
            ELSE [rec EXCEPT !.pc = "find"]
      [] rec.endpoint = "migrate" ->
            IF ~rec.body.isArray
            THEN Answer(rec, 400, FALSE, "bookmarks must be an array")
            ELSE [rec EXCEPT !.pc = "find"]

\* the middleware, were it to call next() when no token is sent
authStartOpen(h, endpoint, token, body) ==
    /\ CanArrive(h)
    /\ http' = [http EXCEPT ![h] =
                   LET rec == [IdleHttp EXCEPT !.endpoint = endpoint, !.token = token,
                                               !.body = body]
                   IN  IF token.kind = "none"
                       THEN Handler([rec EXCEPT !.ran = TRUE])
                       ELSE IF token.kind = "garbage"
                       THEN Answer(rec, 401, FALSE, "Invalid token")
                       ELSE [rec EXCEPT !.pc = "auth"]]
    /\ UNCHANGED <<keys, aiEnabled, HARDCODED, cache, now, req, db>>

\* the middleware up to await User.findById: no token is answered with 401,
\* a token jwt.verify throws on is answered with 401 by the catch block
authStart(h, endpoint, token, body) ==
    /\ CanArrive(h)
    /\ http' = [http EXCEPT ![h] =
                   LET rec == [IdleHttp EXCEPT !.endpoint = endpoint, !.token = token,
                                               !.body = body]
                   IN  IF token.kind = "none"
                       THEN Answer(rec, 401, FALSE, "Not authenticated")
                       ELSE IF token.kind = "garbage"
                       THEN Answer(rec, 401, FALSE, "Invalid token")
                       ELSE [rec EXCEPT !.pc = "auth"]]
    /\ UNCHANGED <<keys, aiEnabled, HARDCODED, cache, now, req, db>>

\* User.findById has resolved: without the user the answer is 401, else
\* req.user is set and next() enters the handler
authFindUser(h) ==
    /\ http[h].pc = "auth"
    /\ http' = [http EXCEPT ![h] =
                   IF http[h].token.userId \in 1..Len(db.users)
                   THEN Handler([http[h] EXCEPT !.read = TRUE,
                                                !.user = http[h].token.userId,
                                                !.ran = TRUE])
                   ELSE Answer([http[h] EXCEPT !.read = TRUE], 401, FALSE,
                               "User not found")]
    /\ UNCHANGED <<keys, aiEnabled, HARDCODED, cache, now, req, db>>

\* postComment: Comment.countDocuments has resolved
postCommentCount(h) ==
    /\ http[h].pc = "count" /\ http[h].endpoint = "comments"
    /\ http' = [http EXCEPT ![h] =
                   IF recentComments(@.user) >= commentsPerHour
                   THEN Answer(@, 429, FALSE,
                               "Too many comments. Please wait before posting again.")
                   ELSE [@ EXCEPT !.pc = "create"]]
    /\ UNCHANGED <<keys, aiEnabled, HARDCODED, cache, now, req, db>>

\* postComment: Comment.create has resolved and 201 is answered
postCommentCreate(h) ==
    /\ http[h].pc = "create" /\ http[h].endpoint = "comments"
    /\ db' = [db EXCEPT !.comments =
                 Append(@, [userId |-> http[h].user,
                            articleId |-> http[h].body.articleId,
                            text |-> sanitizeComment(http[h].body.text),
                            createdAt |-> now])]
    /\ http' = [http EXCEPT ![h] =
                   Answer([@ EXCEPT !.created = Len(db.comments) + 1], 201, TRUE, "")]
    /\ UNCHANGED <<keys, aiEnabled, HARDCODED, cache, now, req>>

\* saveBookmark: Bookmark.findOne has resolved
saveBookmarkFind(h) ==
    /\ http[h].pc = "find" /\ http[h].endpoint = "bookmarks"
    /\ http' = [http EXCEPT ![h] =
                   IF BookmarkExists(@.user, @.body.articleId)
                   THEN Answer(@, 400, FALSE, "Already bookmarked")
                   ELSE [@ EXCEPT !.pc = "create"]]
    /\ UNCHANGED <<keys, aiEnabled, HARDCODED, cache, now, req, db>>

\* the bookmark Bookmark.create stores for the request
NewBookmark(rec) ==
    [userId |-> rec.user, articleId |-> rec.body.articleId,
     title |-> rec.body.title, url |-> rec.body.url]

\* saveBookmark: Bookmark.create, were the schema to declare no unique index
saveBookmarkCreateNoIndex(h) ==
    /\ http[h].pc = "create" /\ http[h].endpoint = "bookmarks"
    /\ db' = [db EXCEPT !.bookmarks = Append(@, NewBookmark(http[h]))]
    /\ http' = [http EXCEPT ![h] =
                   Answer([@ EXCEPT !.created = Len(db.bookmarks) + 1], 200, TRUE, "")]
    /\ UNCHANGED <<keys, aiEnabled, HARDCODED, cache, now, req>>

\* saveBookmark: Bookmark.create has settled: the unique index on
\* (userId, articleId) rejects a second document and the catch block answers
\* 500; else the bookmark is stored
saveBookmarkCreate(h) ==
    /\ http[h].pc = "create" /\ http[h].endpoint = "bookmarks"
    /\ IF BookmarkExists(http[h].user, http[h].body.articleId)
       THEN /\ http' = [http EXCEPT ![h] =
                           Answer(@, 500, FALSE, "Failed to save bookmark")]
            /\ db' = db
       ELSE /\ db' = [db EXCEPT !.bookmarks = Append(@, NewBookmark(http[h]))]
            /\ http' = [http EXCEPT ![h] =
                           Answer([@ EXCEPT !.created = Len(db.bookmarks) + 1],
                                  200, TRUE, "")]
    /\ UNCHANGED <<keys, aiEnabled, HARDCODED, cache, now, req>>

\* migrateBookmarks on its one item: Bookmark.findOne has resolved, an
\* existing bookmark is skipped
migrateBookmarksFind(h) ==
    /\ http[h].pc = "find" /\ http[h].endpoint = "migrate"
    /\ http' = [http EXCEPT ![h] =
                   IF BookmarkExists(@.user, @.body.articleId)
                   THEN Answer(@, 200, TRUE, "")
                   ELSE [@ EXCEPT !.pc = "create"]]
    /\ UNCHANGED <<keys, aiEnabled, HARDCODED, cache, now, req, db>>

\* migrateBookmarks on its one item: Bookmark.create has settled, a rejected
\* document is counted as an error and the answer is 200 either way
migrateBookmarksCreate(h) ==
    /\ http[h].pc = "create" /\ http[h].endpoint = "migrate"
    /\ IF BookmarkExists(http[h].user, http[h].body.articleId)
       THEN /\ http' = [http EXCEPT ![h] = Answer(@, 200, TRUE, "")]
            /\ db' = db
       ELSE /\ db' = [db EXCEPT !.bookmarks = Append(@, NewBookmark(http[h]))]
            /\ http' = [http EXCEPT ![h] =
                           Answer([@ EXCEPT !.created = Len(db.bookmarks) + 1],
                                  200, TRUE, "")]
    /\ UNCHANGED <<keys, aiEnabled, HARDCODED, cache, now, req>>

\* addReadingHistory: ReadingHistory.findOne has resolved. The filter names
\* viewedAt, a path the schema does not declare: whether an entry of the
\* user and article matches depends on the query mode of the installed
\* mongoose. A found entry is saved again (no timeSpent is sent, nothing
\* changes) and 200 is answered
addReadingHistoryFind(h, found) ==
    /\ http[h].pc = "find" /\ http[h].endpoint = "history"
    /\ found => HistoryExists(http[h].user, http[h].body.articleId)
    /\ http' = [http EXCEPT ![h] =
                   IF found THEN Answer(@, 200, TRUE, "") ELSE [@ EXCEPT !.pc = "create"]]
    /\ UNCHANGED <<keys, aiEnabled, HARDCODED, cache, now, req, db>>

\* addReadingHistory: ReadingHistory.create has resolved
addReadingHistoryCreate(h) ==
    /\ http[h].pc = "create" /\ http[h].endpoint = "history"
    /\ db' = [db EXCEPT !.history =
                 Append(@, [userId |-> http[h].user,
                            articleId |-> http[h].body.articleId])]
    /\ http' = [http EXCEPT ![h] =
                   Answer([@ EXCEPT !.created = Len(db.history) + 1], 200, TRUE, "")]
    /\ UNCHANGED <<keys, aiEnabled, HARDCODED, cache, now, req>>

---------------------------------------------------------------------------
\* the state of a server without provider keys whose database is one of dbs
AppStarted(dbs) ==
    /\ keys = {} /\ aiEnabled = FALSE
    /\ HARDCODED = LoadedStore(Len(FallbackLoadOrder))
    /\ cache = {} /\ now = 2
    /\ req = [r \in Reqs |-> IdleReq]
    /\ db \in dbs
    /\ http = [h \in Https |-> IdleHttp]

\* the steps of the register requests, the bodies drawn from B
RegisterStep(B) ==
    \/ \E h \in Https : \E body \in B : registerStart(h, body)
    \/ \E h \in Https : registerFind(h)
    \/ \E h \in Https : registerSave(h)

\* concurrent registrations, on a database that is empty or holds one user
InitRegister == AppStarted({EmptyDb, OneUserDb})

NextRegister == RegisterStep(RegBodies)

SpecRegister == InitRegister /\ [][NextRegister]_vars

\* the database of one user who posted one comment less than the limit
\* within the last hour
CommentsDb ==
    [OneUserDb EXCEPT !.comments =
        [i \in 1..(commentsPerHour - 1) |->
            [userId |-> 1, articleId |-> "art1", text |-> "hello", createdAt |-> 2]]]

InitComments == AppStarted({CommentsDb})

\* concurrent POST /api/comments/:articleId requests
NextComments ==
    \/ \E h \in Https, token \in Tokens :
           \E body \in Bodies("comments") : authStart(h, "comments", token, body)
    \/ \E h \in Https : authFindUser(h)
    \/ \E h \in Https : postCommentCount(h)
    \/ \E h \in Https : postCommentCreate(h)

SpecComments == InitComments /\ [][NextComments]_vars

\* the body of the repository's test user
TestUserBody ==
    [NoBody EXCEPT !.name = "Test User", !.email = "a@x.com", !.password = "Test123456"]

\* concurrent requests to the protected endpoints and registrations of the
\* test user, on a database that is empty or holds two users
InitApp == AppStarted({EmptyDb, TwoUserDb})

NextApp ==
    \/ RegisterStep({TestUserBody})
    \/ \E h \in Https, endpoint \in Protected, token \in Tokens :
           \E body \in Bodies(endpoint) : authStart(h, endpoint, token, body)
    \/ \E h \in Https : authFindUser(h)
    \/ \E h \in Https : postCommentCount(h)
    \/ \E h \in Https : postCommentCreate(h)
    \/ \E h \in Https : saveBookmarkFind(h)
    \/ \E h \in Https : saveBookmarkCreate(h)
    \/ \E h \in Https : migrateBookmarksFind(h)
    \/ \E h \in Https : migrateBookmarksCreate(h)
    \/ \E h \in Https, found \in BOOLEAN : addReadingHistoryFind(h, found)
    \/ \E h \in Https : addReadingHistoryCreate(h)

SpecApp == InitApp /\ [][NextApp]_vars

---------------------------------------------------------------------------
(* Properties *)

\* request r has been answered by the controller (validation passed)
Answered(r) == req[r].pc = "done" /\ req[r].via # "reject"

Ids(articles) == {articles[i].id : i \in 1..Len(articles)}
Urls(articles) == {articles[i].url : i \in 1..Len(articles)}

\* C1: with no provider configured, every validated getNews request is
\* answered ok: true, isFallback: true, with a non-empty data list that is the
\* fallback store's entry of the category, or the general entry when the
\* store has none for it.
C1_NoKeysFallback ==
    \A r \in Reqs :
        (keys = {} /\ Answered(r) /\ req[r].op = "news")
        => /\ req[r].resp.ok /\ req[r].resp.isFallback
           /\ req[r].resp.hasData /\ req[r].resp.data # <<>>
           /\ req[r].resp.data = HARDCODED[FallbackKey(req[r].name)]

\* C2: when a provider is configured and the merged, deduplicated list of
\* getNews is empty, the response carries the fallback store's entries of the
\* category and is marked isFallback: true.
C2_EmptyMergeMarkedFallback ==
    [][\A r \in Reqs :
          (AllSettled(r) /\ req[r].op = "news" /\ Len(Merged(r)) = 0
             /\ req'[r].pc = "done")
          => /\ req'[r].resp.isFallback
             /\ req'[r].resp.hasData /\ req'[r].resp.data # <<>>
             /\ Ids(req'[r].resp.data) \subseteq Ids(HARDCODED[FallbackKey(req[r].name)])]_vars

\* C3: when a provider is configured and the merged, deduplicated list of
\* getLocalNews is empty, the response carries the local fallback record (a
\* non-empty data list) and is marked isFallback: true.
C3_LocalEmptyMergeFallback ==
    [][\A r \in Reqs :
          (AllSettled(r) /\ req[r].op = "local" /\ Len(Merged(r)) = 0
             /\ req'[r].pc = "done")
          => /\ req'[r].resp.isFallback
             /\ req'[r].resp.data # <<>>]_vars

\* C4: no two articles of a returned data list have the same id.
C4_UniqueIds ==
    \A r \in Reqs :
        (Answered(r) /\ req[r].resp.hasData)
        => \A i, j \in 1..Len(req[r].resp.data) :
              i # j => req[r].resp.data[i].id # req[r].resp.data[j].id

\* C5: in every returned data list publishedAt is non-increasing.
C5_SortedByDate ==
    \A r \in Reqs :
        (Answered(r) /\ req[r].resp.hasData)
        => \A i \in 1..(Len(req[r].resp.data) - 1) :
              req[r].resp.data[i].publishedAt >= req[r].resp.data[i + 1].publishedAt

\* C6: every successful response carries at most pageSize articles, pageSize
\* being the clamped value of the request.
C6_AtMostPageSize ==
    \A r \in Reqs :
        (Answered(r) /\ req[r].resp.ok) => Len(req[r].resp.data) <= req[r].pageSize

\* C7: of two getNews calls with the same category, page and pageSize, the
\* second starting after the first completed and within the TTL, the second
\* is answered from the cache with the first one's list.
C7_CacheIdempotence ==
    \A r1, r2 \in Reqs :
        (/\ r1 < r2 /\ Answered(r1) /\ Answered(r2)
         /\ req[r1].op = "news" /\ req[r2].op = "news"
         /\ req[r1].name = req[r2].name /\ req[r1].page = req[r2].page
         /\ req[r1].pageSize = req[r2].pageSize
         /\ req[r2].startedAt >= req[r1].doneAt
         /\ req[r2].startedAt <= req[r1].doneAt + stdTTL)
        => /\ req[r2].resp.fromCache
           /\ req[r2].resp.hasData = req[r1].resp.hasData
           /\ req[r2].resp.data = req[r1].resp.data

\* the call of provider p has failed after its last retry, the call of the
\* other provider returned n articles with distinct urls, 1 <= n <= pageSize
OneFailedOtherUsable(r, p) ==
    /\ AllSettled(r) /\ req[r].op = "news"
    /\ req[r].calls[p].outcome = "failed"
    /\ \E o \in ProviderSet \ {p} :
          /\ req[r].calls[o].outcome = "ok"
          /\ Len(req[r].calls[o].value) >= 1
          /\ Len(req[r].calls[o].value) <= req[r].pageSize
          /\ Cardinality(Urls(req[r].calls[o].value)) = Len(req[r].calls[o].value)

\* the two arrays hold the same articles
SameArticles(a, b) ==
    /\ Len(a) = Len(b)
    /\ {a[i] : i \in 1..Len(a)} = {b[i] : i \in 1..Len(b)}

\* C8: with two providers configured, when one call fails and the other
\* returns n usable articles with distinct urls, 1 <= n <= pageSize, getNews
\* answers with exactly those articles, no error and no fallback mark.
C8_FailureIsolated ==
    [][\A r \in Reqs : \A p \in ProviderSet :
          (OneFailedOtherUsable(r, p) /\ req'[r].pc = "done")
          => /\ req'[r].resp.status = 200 /\ req'[r].resp.ok
             /\ ~req'[r].resp.error /\ ~req'[r].resp.isFallback
             /\ req'[r].resp.hasData
             /\ \A o \in ProviderSet \ {p} :
                   SameArticles(req'[r].resp.data, req[r].calls[o].value)]_vars

C8_Witness ==
    \E r \in Reqs :
        /\ Answered(r) /\ req[r].op = "news" /\ req[r].via = "live"
        /\ keys = ProviderSet /\ req[r].failed = {"guardian"}
        /\ Len(req[r].resp.data) = 2 /\ req[r].pageSize >= 2

\* C9: an exception raised inside getNews is answered with status 200,
\* ok: true, isFallback: true, an error field and the fallback data of the
\* category (or of general).
C9_NeverHardFails ==
    \A r \in Reqs :
        (req[r].pc = "done" /\ req[r].op = "news" /\ req[r].via \in {"catch", "joincatch"})
        => /\ req[r].resp.status = 200 /\ req[r].resp.ok
           /\ req[r].resp.isFallback /\ req[r].resp.error
           /\ req[r].resp.hasData /\ req[r].resp.data # <<>>
           /\ Ids(req[r].resp.data) = Ids(HARDCODED[FallbackKey(req[r].name)])

OutOfBounds(op, q) ==
    LET number(v, lo, hi) ==
            IF v = Undefined THEN FALSE ELSE ParseInt(v) < lo \/ ParseInt(v) > hi
        length(v, lo, hi) ==
            IF v = Undefined THEN FALSE ELSE Len(v) < lo \/ Len(v) > hi
    IN  IF op = "news"
        THEN length(q.name, 1, 50) \/ number(q.page, 1, 100) \/ number(q.pageSize, 1, 50)
        ELSE length(q.name, 2, 100) \/ number(q.page, 1, 50) \/ number(q.pageSize, 1, 20)

\* C11: a getNews or getLocalNews request with a parameter outside its
\* declared bounds is answered with status 400 and ok: false, and the step
\* that answers it neither looks the cache up (an expired entry stays) nor
\* starts a provider call.
C11_InvalidRejectedBeforeWork ==
    [][\A r \in Reqs :
          (req[r].pc = "idle" /\ req'[r].pc # "idle"
             /\ OutOfBounds(req'[r].op, req'[r].query))
          => /\ req'[r].pc = "done"
             /\ req'[r].resp.status = 400 /\ ~req'[r].resp.ok
             /\ cache' = cache
             /\ \A p \in ProviderSet : req'[r].calls[p].state = "none"
             /\ req'[r].failed = {}]_vars

\* a request with a page out of bounds has been answered while the cache
\* held an expired entry
C11_Witness ==
    \E r \in Reqs :
        /\ req[r].pc = "done" /\ req[r].via = "reject"
        /\ req[r].query.page = "0"
        /\ req[r].resp.status = 400
        /\ \E e \in cache : req[r].startedAt > e.setAt + stdTTL

\* the keys of CATEGORY_MAP
KnownCategories ==
    {"general", "india", "world", "business", "technology", "sports",
     "environment", "education", "health", "science", "economy", "legal",
     "culture", "global-politics", "global-finance"}

\* C12: GET /api/news with a category that is not one of the known
\* categories (e.g. invalid) is answered with status 400 and ok: false.
C12_UnknownCategoryRejected ==
    \A r \in Reqs :
        (req[r].pc = "done" /\ req[r].op = "news"
           /\ req[r].query.name # Undefined
           /\ ToLowerTrim(req[r].query.name) \notin KnownCategories)
        => req[r].resp.status = 400 /\ ~req[r].resp.ok

\* C13: a fetchWithRetry call makes at most retries + 1 attempts; an attempt
\* that succeeds settles the call with its data and no attempt follows; an
\* attempt that fails is followed by another one while fewer than
\* retries + 1 were made, and the call throws exactly when attempt
\* retries + 1 fails, the error thrown being that of this last attempt.
C13_RetriesPlusOneAttempts ==
    [][\A r \in Reqs : \A p \in ProviderSet :
          LET c == req[r].calls[p]
              d == req'[r].calls[p]
          IN  /\ c.state = "pending" => Len(c.errors) <= defaultRetries
              /\ (c.state = "pending" /\ d # c)
                 => \/ /\ d.state = "settled" /\ d.outcome \in {"ok", "malformed"}
                       /\ d.thrown = Null
                    \/ /\ Len(c.errors) < defaultRetries
                       /\ d.state = "pending" /\ Len(d.errors) = Len(c.errors) + 1
                    \/ /\ Len(c.errors) = defaultRetries
                       /\ d.state = "settled" /\ d.outcome = "failed"
                       /\ Len(d.errors) = defaultRetries + 1
                       /\ SubSeq(d.errors, 1, defaultRetries) = c.errors
                       /\ d.thrown = d.errors[defaultRetries + 1]
              /\ (c.state = "settled" /\ req'[r].pc = "fetch") => d = c]_vars

\* a call has thrown after three failed attempts, the last one failing with
\* another error than the first
C13_Witness ==
    \E r \in Reqs : \E p \in ProviderSet :
        /\ req[r].calls[p].outcome = "failed"
        /\ Len(req[r].calls[p].errors) = defaultRetries + 1
        /\ req[r].calls[p].errors[1] # req[r].calls[p].thrown
        /\ \E o \in ProviderSet \ {p} : req[r].calls[o].outcome = "ok"

\* C14: the fallback store is read-only: no step of a getNews or
\* getLocalNews call (fallback paths and AI enrichment included) changes the
\* articles of a category, their order or a field of theirs.
C14_StoreReadOnly == [][HARDCODED' = HARDCODED]_vars

\* C15: the step of a cache-miss getNews that follows the provider calls
\* stores the cache entry and sends the response at once: every summarize
\* call it started is still pending then, and no article of the response
\* carries a summary.
C15_EnrichmentNeverBlocks ==
    [][\A r \in Reqs :
          (AllSettled(r) /\ req[r].op = "news" /\ req'[r] # req[r])
          => /\ req'[r].pc = "done"
             /\ req'[r].resp.status = 200 /\ req'[r].resp.ok
             /\ req'[r].via \in {"live", "fallback"}
                => LET data == req'[r].resp.data
                   IN  /\ CacheHas(cache', CacheKey("news", req[r].name, req[r].page,
                                                    req[r].pageSize), now)
                       /\ req'[r].enrich =
                              IF aiEnabled THEN 1..Min(enrichTop, Len(data)) ELSE {}
                       /\ \A i \in 1..Len(data) :
                              data[i].aiSummary \in {Null, Undefined}]_vars

\* a request has been answered and its entry cached while both summarize
\* calls it started are pending
C15_Witness ==
    \E r \in Reqs :
        /\ aiEnabled /\ Answered(r) /\ req[r].via = "live"
        /\ Len(req[r].resp.data) = 2 /\ req[r].enrich = {1, 2}
        /\ req[r].resp.status = 200
        /\ CacheHas(cache, CacheKey("news", req[r].name, req[r].page,
                                    req[r].pageSize), now)

\* no two users have the same email
UniqueEmails(users) ==
    \A i, j \in 1..Len(users) : i # j => users[i].email # users[j].email

\* C16: a register request whose email is registered when the handler looks
\* it up is answered with status 400 and 'Email already registered' and
\* creates no user; and after every step, concurrent registrations of one
\* email included, at most one user exists per email.
C16_OneUserPerEmail ==
    [][/\ \A h \in Https :
             (http[h].endpoint = "register" /\ http[h].pc = "find"
                /\ http'[h] # http[h] /\ UserExists(http[h].email))
             => /\ http'[h].pc = "done"
                /\ http'[h].status = 400 /\ ~http'[h].ok
                /\ http'[h].error = "Email already registered"
                /\ http'[h].created = 0
                /\ db' = db
       /\ UniqueEmails(db'.users)]_vars

\* two registrations of one email were handled concurrently: both found no
\* user, one has created the user and the other's save was rejected
C16_Witness ==
    \E g, h \in Https :
        /\ g # h
        /\ http[g].pc = "done" /\ http[g].created > 0
        /\ http[h].pc = "done" /\ http[h].status = 500
        /\ http[g].email = http[h].email
        /\ http[g].body.email # http[h].body.email
        /\ Len(db.users) = 1

\* the character classes of the passwords above
hasUpperCase(pw) == pw \in {"Test123456"}
hasLowerCase(pw) == pw \in {"Test123456", "password"}
hasNumber(pw) == pw \in {"Test123456", "12345"}

WeakPassword(pw) ==
    Len(pw) < 6 \/ ~hasUpperCase(pw) \/ ~hasLowerCase(pw) \/ ~hasNumber(pw)

\* C17: a registration whose password is shorter than 6 characters or lacks
\* an uppercase letter, a lowercase letter or a digit creates no user and is
\* answered with status 400 and ok: false.
C17_WeakPasswordRejected ==
    \A h \in Https :
        (http[h].endpoint = "register" /\ WeakPassword(http[h].body.password))
        => /\ http[h].created = 0
           /\ http[h].pc = "done" => (http[h].status = 400 /\ ~http[h].ok)

\* C18: a request to a protected endpoint that carries no token, or a token
\* jwt.verify rejects, is answered 401 at once: its handler is never entered,
\* no collection is queried for it and the database is unchanged. A token of
\* a user that does not exist is answered 401 without entering the handler
\* or changing the database. A handler that has been entered runs for the
\* existing user its token names.
C18_UnauthenticatedNeverRuns ==
    [][\A h \in Https :
          /\ (http'[h].endpoint \in Protected /\ http'[h].token.kind # "jwt"
                 /\ http'[h] # http[h])
             => /\ http'[h].pc = "done"
                /\ http'[h].status = 401 /\ ~http'[h].ok
                /\ ~http'[h].ran /\ ~http'[h].read
                /\ http'[h].created = 0
                /\ db' = db
          /\ (http[h].pc = "auth" /\ http'[h] # http[h]
                 /\ http[h].token.userId \notin 1..Len(db.users))
             => /\ http'[h].pc = "done"
                /\ http'[h].status = 401 /\ ~http'[h].ok
                /\ ~http'[h].ran
                /\ http'[h].created = 0
                /\ db' = db
          /\ (http'[h].endpoint \in Protected /\ http'[h].ran)
             => /\ http'[h].token.kind = "jwt"
                /\ http'[h].user = http'[h].token.userId
                /\ http'[h].user \in 1..Len(db'.users)]_vars

\* a comment posted without a token was answered 401 and stored nothing,
\* while the same comment posted with the token of a user was stored
C18_Witness ==
    \E g, h \in Https :
        /\ http[h].endpoint = "comments" /\ http[h].pc = "done"
        /\ http[h].token.kind = "none" /\ http[h].status = 401
        /\ http[g].endpoint = "comments" /\ http[g].pc = "done"
        /\ http[g].body = http[h].body
        /\ http[g].status = 201 /\ http[g].created = 1
        /\ Len(db.comments) = 1

\* no two bookmarks have the same user and article
UniqueBookmarks(bookmarks) ==
    \A i, j \in 1..Len(bookmarks) :
        i # j => \/ bookmarks[i].userId # bookmarks[j].userId
                 \/ bookmarks[i].articleId # bookmarks[j].articleId

\* C19: a save request whose user has a bookmark of the articleId when the
\* handler looks it up is answered with status 400 and 'Already bookmarked'
\* and stores nothing; and after every step of any interleaving of requests
\* at most one bookmark exists per user and articleId.
C19_OneBookmarkPerArticle ==
    [][/\ \A h \in Https :
             (http[h].endpoint = "bookmarks" /\ http[h].pc = "find"
                /\ http'[h] # http[h]
                /\ BookmarkExists(http[h].user, http[h].body.articleId))
             => /\ http'[h].pc = "done"
                /\ http'[h].status = 400 /\ ~http'[h].ok
                /\ http'[h].error = "Already bookmarked"
                /\ http'[h].created = 0
                /\ db' = db
       /\ UniqueBookmarks(db'.bookmarks)]_vars

\* two save requests of one user for one article were interleaved: both
\* found no bookmark, one has stored it and the other's create was rejected
C19_Witness ==
    \E g, h \in Https :
        /\ g # h
        /\ http[g].endpoint = "bookmarks" /\ http[h].endpoint = "bookmarks"
        /\ http[g].pc = "done" /\ http[g].created > 0
        /\ http[h].pc = "done" /\ http[h].status = 500
        /\ http[g].user = http[h].user
        /\ http[g].body.articleId = http[h].body.articleId
        /\ Len(db.bookmarks) = 1

\* C20: when getNews merges usable articles, at most pageSize in total, the
\* response holds exactly one article per distinct url among them, and the
\* article of a url is its first occurrence in the merge order, the gnews
\* articles before the guardian articles.
C20_FirstOccurrenceKept ==
    [][\A r \in Reqs :
          LET merged == req[r].calls["gnews"].value \o req[r].calls["guardian"].value
              urls == {merged[i].url : i \in 1..Len(merged)}
              first(u) == merged[CHOOSE i \in 1..Len(merged) :
                                    /\ merged[i].url = u
                                    /\ \A j \in 1..(i - 1) : merged[j].url # u]
              data == req'[r].resp.data
          IN  (req[r].pc = "fetch" /\ req'[r].pc = "done" /\ req[r].op = "news"
                 /\ Len(merged) > 0 /\ Len(merged) <= req[r].pageSize)
              => /\ req'[r].resp.status = 200
                 /\ Len(data) = Cardinality(urls)
                 /\ {data[i] : i \in 1..Len(data)} = {first(u) : u \in urls}]_vars

\* both providers returned two articles, one url shared: the response holds
\* three articles and the one of the shared url is the gnews copy
C20_Witness ==
    \E r \in Reqs :
        /\ req[r].pc = "done" /\ req[r].op = "news" /\ req[r].via = "live"
        /\ req[r].usable = 4 /\ req[r].usable <= req[r].pageSize
        /\ Len(req[r].resp.data) = 3
        /\ \E i \in 1..3 : /\ req[r].resp.data[i].url = "https://a/1"
                            /\ req[r].resp.data[i].source = "GNews"
        /\ \E i \in 1..3 : /\ req[r].resp.data[i].url = "https://g/2"
                            /\ req[r].resp.data[i].source = "The Guardian"

\* C21: while a provider call issued for a request is pending, the request
\* stays at the await: it sends no response and the cache is not written,
\* whatever the other calls have settled to.
C21_JoinWaitsForAll ==
    [][\A r \in Reqs :
          (req[r].pc = "fetch" /\ \E p \in ProviderSet : req[r].calls[p].state = "pending")
          => /\ req'[r].pc = "fetch"
             /\ req'[r].resp = NoResponse
             /\ cache' = cache]_vars

\* one call has failed after its retries while the other, already retried,
\* is pending: the request is still at the await and nothing was cached
C21_Witness ==
    \E r \in Reqs, p, o \in ProviderSet :
        /\ req[r].pc = "fetch"
        /\ req[r].calls[p].outcome = "failed"
        /\ Len(req[r].calls[p].errors) = defaultRetries + 1
        /\ req[r].calls[o].state = "pending" /\ req[r].calls[o].attempt > 0
        /\ req[r].resp = NoResponse
        /\ cache = {}

\* the cache key of a request that has started
KeyOf(rec) == CacheKey(rec.op, rec.name, rec.page, rec.pageSize)

\* request rec started after the entries that earlier requests of rs stored
\* under its key, one at least, had expired
StartedAfterExpiry(rec, rs) ==
    LET stored == {o \in rs : /\ o.pc = "done" /\ o.via \in {"live", "fallback"}
                              /\ KeyOf(o) = KeyOf(rec)
                              /\ o.doneAt <= rec.startedAt}
    IN  /\ stored # {}
        /\ \A o \in stored : rec.startedAt > o.doneAt + stdTTL

\* C22: a getNews call that looks up the cache after the entry of its key
\* has expired is not answered from the cache: it fans out to the providers
\* again, reports fromCache = false and, when it answers, has stored an
\* entry of its own list under the key.
C22_ExpiredEntryIsMiss ==
    [][\A r \in Reqs :
          (/\ req'[r] # req[r] /\ req'[r].op = "news"
           /\ req'[r].via \notin {"reject", "catch"}
           /\ StartedAfterExpiry(req'[r], {req[o] : o \in Reqs \ {r}}))
          => /\ req'[r].via # "hit" /\ ~req'[r].resp.fromCache
             /\ req[r].pc = "idle" => req'[r].pc = "fetch"
             /\ req'[r].pc = "done"
                => /\ req'[r].via \in {"live", "fallback"}
                   /\ \E e \in cache' : /\ e.key = KeyOf(req'[r])
                                        /\ e.setAt = now
                                        /\ e.value = req'[r].resp.data]_vars

\* the parameters the handler computes from the query
SameParams(a, b) ==
    a.op = b.op /\ a.name = b.name /\ a.page = b.page /\ a.pageSize = b.pageSize

\* C23: two requests have the same cache key if and only if they have the
\* same operation, the same lower-cased and trimmed category or location,
\* the same page and the same clamped page size; the list a cache hit
\* returns is the list a request with the same parameters computed.
C23_KeyIdentifiesParams ==
    [][/\ \A a, b \in Reqs :
             (req'[a].pc # "idle" /\ req'[b].pc # "idle")
             => (KeyOf(req'[a]) = KeyOf(req'[b]) <=> SameParams(req'[a], req'[b]))
       /\ \A r \in Reqs :
             (req[r].pc = "idle" /\ req'[r].via = "hit")
             => \E o \in Reqs \ {r} :
                   /\ req[o].via \in {"live", "fallback"}
                   /\ SameParams(req[o], req'[r])
                   /\ req'[r].resp.data = req[o].resp.data]_vars

\* a hit by a request whose query is written differently from the query of
\* the request that stored the list
C23_Witness ==
    \E a, b \in Reqs :
        /\ req[a].via \in {"live", "fallback"} /\ req[b].via = "hit"
        /\ req[a].query # req[b].query
        /\ req[b].resp.data = req[a].resp.data /\ Len(req[b].resp.data) > 0

\* C24: a request that finds a live entry under its key is answered in that
\* step with status 200, fromCache = true and the stored list; no provider
\* call is started, no enrichment is started, and the cache, the fallback
\* store and the other requests are left as they were.
C24_HitFrame ==
    [][\A r \in Reqs :
          (/\ req[r].pc = "idle" /\ req'[r].pc # "idle"
           /\ CacheHas(cache, KeyOf(req'[r]), now))
          => /\ req'[r].pc = "done" /\ req'[r].via = "hit"
             /\ req'[r].resp.status = 200 /\ req'[r].resp.fromCache
             /\ req'[r].resp.data = CacheGet(cache, KeyOf(req'[r]), now)
             /\ \A p \in ProviderSet : req'[r].calls[p] = NoCall
             /\ req'[r].failed = {} /\ req'[r].usable = 0
             /\ req'[r].enrich = {}
             /\ cache' = cache /\ HARDCODED' = HARDCODED
             /\ \A o \in Reqs \ {r} : req'[o] = req[o]]_vars

\* a hit on a list with articles while GEMINI_API_KEY is set and the
\* enrichment of the request that stored the list is still pending
C24_Witness ==
    \E r, o \in Reqs :
        /\ req[r].via = "hit" /\ req[r].resp.fromCache /\ Len(req[r].resp.data) > 0
        /\ aiEnabled /\ req[r].enrich = {}
        /\ req[o].via = "live" /\ req[o].enrich # {} /\ KeyOf(req[o]) = KeyOf(req[r])

\* the request that stored the entry a lookup of key k finds at time t
Stored(rec, k, t) ==
    /\ rec.via \in {"live", "fallback"} /\ KeyOf(rec) = k
    /\ \E e \in CacheLive(cache, k, t) : e.setAt = rec.doneAt /\ e.value = rec.resp.data

\* C25: with GEMINI_API_KEY set, once the summary of one of the first five
\* articles of a getNews result has been produced (in SpecCache
\* enhanceWithGemini resolves to the text "summary"), a cache hit on the
\* same key before the entry expires returns that article with aiSummary
\* set to the summary.
C25_BackfillReachesCache ==
    [][\A r \in Reqs, o \in Reqs :
          (/\ req[r].pc = "idle" /\ req'[r].via = "hit" /\ req'[r].op = "news"
           /\ aiEnabled /\ Stored(req[o], KeyOf(req'[r]), now))
          => \A i \in 1..Min(enrichTop, Len(req[o].resp.data)) :
                i \notin req[o].enrich => req'[r].resp.data[i].aiSummary = "summary"]_vars

\* C30: the fallback list getNews substitutes when the providers yielded no
\* article is stored under the request's key in the same step, and a
\* request with the same key that arrives before the entry expires is
\* answered from the cache: fromCache = true, no isFallback mark, the same
\* list, and no provider call is started.
C30_FallbackIsCached ==
    [][/\ \A o \in Reqs :
             (req[o].pc = "fetch" /\ req'[o].via = "fallback")
             => \E e \in cache' : /\ e.key = KeyOf(req'[o]) /\ e.setAt = now
                                  /\ e.value = req'[o].resp.data
       /\ \A r \in Reqs, o \in Reqs :
             (/\ req[r].pc = "idle" /\ req'[r].pc # "idle"
              /\ req[o].via = "fallback" /\ KeyOf(req[o]) = KeyOf(req'[r])
              /\ now <= req[o].doneAt + stdTTL)
             => /\ req'[r].pc = "done" /\ req'[r].via = "hit"
                /\ req'[r].resp.fromCache /\ ~req'[r].resp.isFallback
                /\ req'[r].resp.data = req[o].resp.data
                /\ \A p \in ProviderSet : req'[r].calls[p] = NoCall]_vars

\* fallback articles served from the cache to a later request
C30_Witness ==
    \E r, o \in Reqs :
        /\ req[o].via = "fallback" /\ req[o].usable = 0
        /\ req[r].via = "hit" /\ KeyOf(req[r]) = KeyOf(req[o])
        /\ req[r].startedAt <= req[o].doneAt + stdTTL
        /\ req[r].resp.fromCache /\ ~req[r].resp.isFallback
        /\ Len(req[r].resp.data) > 0 /\ req[r].resp.data = req[o].resp.data

\* the values the clock takes
Times == {2 + k * (stdTTL + 1) : k \in 0..MaxTicks}

\* article a is an output of normalizeArticle for item raw of provider p
NormalizedFrom(a, p, raw) ==
    \E t \in Times, rnd \in 1..MaxItems : normalizeArticle(p, raw, t, rnd) = << a >>

\* C26: normalizeArticle is deterministic: two articles that a provider
\* call made from the same payload item are identical, also when the item
\* lacks a url, an id or a publication date.
C26_NormalizeDeterministic ==
    \A r \in Reqs, p \in ProviderSet :
        \A raw \in (IF p = "gnews" THEN GnewsItems ELSE GuardianItems) :
            \A i, j \in 1..Len(req[r].calls[p].value) :
                (/\ NormalizedFrom(req[r].calls[p].value[i], p, raw)
                 /\ NormalizedFrom(req[r].calls[p].value[j], p, raw))
                => req[r].calls[p].value[i] = req[r].calls[p].value[j]

\* the items of a payload that are no null
NonNull(items) == SelectSeq(items, LAMBDA x : ~x.null)

\* value holds one article for every item that is no null, in their order,
\* made at time t
KeepsItems(value, p, items, t) ==
    LET kept == NonNull(items)
    IN  /\ Len(value) = Len(kept)
        /\ \A i \in 1..Len(value) :
               \E rnd \in 1..MaxItems : normalizeArticle(p, kept[i], t, rnd) = << value[i] >>

\* C27: a successful provider response without the expected array field
\* contributes no article and settles the call without an error; a null
\* among the items is dropped alone, every other item of the payload gives
\* its article; the other provider's call is not touched, and the merged
\* list holds the articles of both calls.
C27_MalformedIsEmpty ==
    [][\A r \in Reqs, p \in ProviderSet :
          /\ (req[r].calls[p].state = "pending" /\ req'[r].calls[p].outcome \in {"ok", "malformed"})
             => /\ \A data \in AnyPayloads[p] :
                      /\ data.malformed => MapPayload(p, data, now) = <<>>
                      /\ ~data.malformed => KeepsItems(MapPayload(p, data, now), p, data.items, now)
                /\ req'[r].calls[p].outcome = "malformed" => req'[r].calls[p].value = <<>>
                /\ req'[r].calls[p].state = "settled" /\ req'[r].calls[p].thrown = Null
                /\ req'[r].pc = "fetch"
                /\ \A o \in ProviderSet \ {p} : req'[r].calls[o] = req[r].calls[o]
          /\ (/\ req[r].pc = "fetch" /\ req'[r].pc = "done"
              /\ req[r].calls[p].outcome = "malformed"
              /\ \E o \in ProviderSet : Len(req[r].calls[o].value) > 0)
             => /\ req'[r].via = "live" /\ req'[r].resp.status = 200 /\ ~req'[r].resp.error
                /\ req'[r].resp.data =
                      Slice(SortByDate(Dedup(req[r].calls["gnews"].value
                                             \o req[r].calls["guardian"].value)),
                            req[r].pageSize)
                /\ Len(req'[r].resp.data) > 0]_vars

\* the guardian answered without response.results, and gnews with a null
\* followed by an item: the item's article alone is the call's value
C27_Witness ==
    \E r \in Reqs :
        /\ req[r].pc = "fetch"
        /\ req[r].calls["guardian"].outcome = "malformed"
        /\ req[r].calls["guardian"].value = <<>>
        /\ req[r].calls["gnews"].outcome = "ok"
        /\ req[r].calls["gnews"].value =
              normalizeArticle("gnews", Raw(Undefined, Undefined, 0), now, 2)

\* the list getNews computes for request r from the calls r started itself
OwnList(r) ==
    IF Len(Merged(r)) # 0 THEN Slice(SortByDate(Merged(r)), req[r].pageSize)
    ELSE Slice(SortByDate(HARDCODED[FallbackKey(req[r].name)]), req[r].pageSize)

\* C28: a getNews request that finds no entry under its key starts provider
\* calls of its own, also while another request with the same key is waiting
\* for its calls; each request answers with the complete list made from
\* its own calls; the entry under the key is, after every write, the
\* complete list of the request that wrote, and no other step changes it.
C28_LastWriterWins ==
    [][\A r \in Reqs :
          /\ (/\ req[r].pc = "idle" /\ req'[r].pc # "idle"
              /\ ~CacheHas(cache, KeyOf(req'[r]), now))
             => /\ req'[r].pc = "fetch"
                /\ \A p \in buildAPIRequests(keys) : req'[r].calls[p].state = "pending"
                /\ \A o \in Reqs \ {r} : req'[o] = req[o]
          /\ (req[r].pc = "fetch" /\ req'[r].pc = "done")
             => /\ req'[r].resp.data = OwnList(r)
                /\ ~req'[r].resp.fromCache
                /\ CacheHas(cache', KeyOf(req[r]), now)
                /\ CacheGet(cache', KeyOf(req[r]), now) = OwnList(r)
                /\ \A o \in Reqs \ {r} : req'[o] = req[o]
          /\ (\A o \in Reqs : ~(req[o].pc = "fetch" /\ req'[o].pc = "done"))
             => cache' = cache]_vars

\* two requests with the same key that both called the provider and
\* computed different lists; the entry is the list of the request that
\* arrived first, which wrote last
C28_Witness ==
    \E a, b \in Reqs :
        /\ a < b /\ KeyOf(req[a]) = KeyOf(req[b])
        /\ req[a].via = "live" /\ req[b].via = "live"
        /\ req[a].resp.data # req[b].resp.data
        /\ CacheHas(cache, KeyOf(req[a]), now)
        /\ CacheGet(cache, KeyOf(req[a]), now) = req[a].resp.data

\* C29: a user never has more than 10 comments created within one hour,
\* also when several postComment requests of the user are handled
\* concurrently: postComment answers 429 and stores nothing once the user has
\* 10 comments in the last hour.
C29_AtMostTenPerHour ==
    \A user \in 1..Len(db.users) : recentComments(user) <= commentsPerHour

====
